---- MODULE Spec2Model ----
(***************************************************************************)
(* Model of tf_lstm.py: the batch_norm helper and LSTMCell.                *)
(*                                                                         *)
(* Tensors are matrices: a sequence of Batch rows, each a sequence of      *)
(* feature values.  A value is a fixed-point number, an integer counting   *)
(* units of 1/Scale.  Variables of the framework's variable store are      *)
(* kept per scope; the store is only changed by what the code asks of it   *)
(* (get_variable creates a variable on first use and looks it up later).   *)
(***************************************************************************)
EXTENDS Integers, Sequences, FiniteSets, TLC

VARIABLES
    bnvars,     \* batch_norm variables per scope: beta, gamma, mean, var, counter, zero_cnt
    bn_last,    \* what the last direct call of batch_norm computed
    ncalls,     \* number of direct batch_norm calls made
    ntrain,     \* number of them made with deterministic = False
    cell,       \* the LSTMCell object: the fields __init__ sets
    store,      \* weight variables created in the cell's scope: name -> shape
    state,      \* the (c, h) pair the caller carries from step to step
    last,       \* what the last call of the cell did
    steps       \* number of calls of the cell made

vars == <<bnvars, bn_last, ncalls, ntrain, cell, store, state, last, steps>>

----------------------------------------------------------------------------
(* Bounds *)

MaxCalls == 3       \* direct batch_norm calls per behaviour
MaxSteps == 2       \* cell calls per behaviour
FeatDim == 1        \* feature width of the tensors handed to batch_norm directly

BatchSizes == {2}   \* batch sizes of the tensors

----------------------------------------------------------------------------
(* Fixed-point arithmetic *)

Scale == 100

Mul(a, b) == (a * b) \div Scale
Div(a, b) == (a * Scale) \div b

Min(a, b) == IF a <= b THEN a ELSE b
Max(a, b) == IF a >= b THEN a ELSE b

RECURSIVE SqrtSearch(_, _, _)
SqrtSearch(n, lo, hi) ==
    \* largest k in lo..hi with k*k <= n, given lo*lo <= n < (hi+1)*(hi+1)
    IF lo = hi THEN lo
    ELSE LET mid == (lo + hi + 1) \div 2
         IN  IF mid * mid <= n THEN SqrtSearch(n, mid, hi)
                               ELSE SqrtSearch(n, lo, mid - 1)

ISqrt(n) == SqrtSearch(n, 0, n)

RECURSIVE SeqSum(_)
SeqSum(s) == IF s = << >> THEN 0 ELSE Head(s) + SeqSum(Tail(s))

\* Vec and Mat give a sequence (of sequences) its elements one by one, so that
\* each element is computed once.
RECURSIVE VecUpTo(_, _)
VecUpTo(s, n) == IF n = 0 THEN << >> ELSE Append(VecUpTo(s, n - 1), s[n])
Vec(s) == VecUpTo(s, Len(s))

RECURSIVE MatUpTo(_, _)
MatUpTo(x, n) == IF n = 0 THEN << >> ELSE Append(MatUpTo(x, n - 1), Vec(x[n]))
Mat(x) == MatUpTo(x, Len(x))

Fill(n, v) == Vec([k \in 1..n |-> v])
Width(x) == Len(x[1])
Column(x, k) == Vec([b \in 1..Len(x) |-> x[b][k]])

----------------------------------------------------------------------------
(* batch_norm *)

Alpha == (9 * Scale) \div 10
GammaInit == Scale \div 10
InvSqrtEps == 10000

BnInitial(feat, shift) ==
    [beta |-> Fill(feat, 0), beta_trainable |-> shift,
     gamma |-> Fill(feat, GammaInit),
     mean |-> Fill(feat, 0), var |-> Fill(feat, Scale * Scale),
     counter |-> 0, zero_cnt |-> 0]

\* vs.get_variable for the variables of one scope: created on first use
BnGetVariables(bnv, scope, feat, shift) ==
    IF scope \in DOMAIN bnv THEN bnv
    ELSE [s \in DOMAIN bnv \cup {scope} |->
            IF s = scope THEN BnInitial(feat, shift) ELSE bnv[s]]

\* moments(x, axes): mean and variance over all but the last dimension.
\* The variance is kept in units of 1/Scale^2 (the squares are not rescaled).
moments(x) ==
    LET n == Len(x)
        mu == Vec([k \in 1..Width(x) |-> SeqSum(Column(x, k)) \div n])
        sq(k) == Vec([b \in 1..n |-> (x[b][k] - mu[k]) * (x[b][k] - mu[k])])
    IN  [mean |-> mu, var |-> Vec([k \in 1..Width(x) |-> SeqSum(sq(k)) \div n])]

SeedSwapped(v, bm, bv) ==
    IF v.counter = v.zero_cnt THEN [mean |-> v.mean, var |-> v.var]
                              ELSE [mean |-> bm, var |-> bv]

\* cond(equal(counter, zero_cnt), (batch_mean, batch_var), (mean, var))
Seed(v, bm, bv) ==
    IF v.counter = v.zero_cnt THEN [mean |-> bm, var |-> bv]
                              ELSE [mean |-> v.mean, var |-> v.var]

BlendVec(b, r) ==
    Vec([k \in 1..Len(b) |-> ((Scale - Alpha) * b[k] + Alpha * r[k]) \div Scale])

\* cond(deterministic, (mean, var, counter), (blend, blend, counter + 1))
Blend(deterministic, seeded, v, bm, bv) ==
    IF deterministic
    THEN [mean |-> seeded.mean, var |-> seeded.var, counter |-> v.counter]
    ELSE [mean |-> BlendVec(bm, seeded.mean), var |-> BlendVec(bv, seeded.var),
          counter |-> v.counter + 1]

\* sqrt(var + 1e-8) in units of 1/Scale; var is in units of 1/Scale^2.  The
\* epsilon only shows when var is 0: then dividing by it multiplies by 10^4.
Normalize(d, var, sd) ==
    IF var = 0 THEN d * InvSqrtEps ELSE Div(d, sd)

\* batch_normalization(x, mean, var, beta, gamma, 1e-8):
\* (x - mean) / sqrt(var + 1e-8) * gamma + beta
batch_normalization(x, mean, var, beta, gamma) ==
    LET sd == Vec([k \in 1..Len(var) |-> ISqrt(var[k])])
    IN  Mat([b \in 1..Len(x) |->
            [k \in 1..Len(x[b]) |->
                Mul(Normalize(x[b][k] - mean[k], var[k], sd[k]), gamma[k]) + beta[k]]])

StoredAssigned(v, upd) ==
    [v EXCEPT !.mean = upd.mean, !.var = upd.var, !.counter = upd.counter]

\* The variables of the scope after the call.  The two cond results are bound
\* to the local names mean, var and counter; no assignment to the variables of
\* the store is made.
StoredAfterCall(v, upd) == v

\* One call of batch_norm on scope `scope`: the tensors it computes and the
\* variables of the store after it.
batch_norm(x, deterministic, shift, scope, bnv) ==
    LET got == BnGetVariables(bnv, scope, Width(x), shift)
        v == got[scope]
        m == moments(x)
        seeded == Seed(v, m.mean, m.var)
        upd == Blend(deterministic, seeded, v, m.mean, m.var)
    IN  [normed |-> batch_normalization(x, upd.mean, upd.var, v.beta, v.gamma),
         batch_mean |-> m.mean, batch_var |-> m.var,
         mean |-> upd.mean, var |-> upd.var, counter |-> upd.counter,
         before |-> v,
         bnvars |-> [got EXCEPT ![scope] = StoredAfterCall(v, upd)]]

----------------------------------------------------------------------------
(* Direct calls of batch_norm on the default scope 'bn' *)

BnScope == "bn"
BnVals == {-Scale, 0, Scale}
\* row b holds v[b], 2*v[b], ... across its features
BnInputs ==
    UNION {{Mat([b \in 1..n |-> [k \in 1..FeatDim |-> k * v[b]]]) : v \in [1..n -> BnVals]}
             : n \in BatchSizes}

NoCall == [called |-> FALSE]

InitBN ==
    /\ bnvars = << >>
    /\ bn_last = [called |-> FALSE, prev |-> NoCall]
    /\ ncalls = 0
    /\ ntrain = 0
    /\ cell = << >>
    /\ store = << >>
    /\ state = << >>
    /\ last = << >>
    /\ steps = 0

BatchNormCall(x, deterministic) ==
    /\ ncalls < MaxCalls
    /\ \E r \in {batch_norm(x, deterministic, TRUE, BnScope, bnvars)} :
           /\ bnvars' = r.bnvars
           /\ bn_last' = [called |-> TRUE, x |-> x, deterministic |-> deterministic,
                          batch_mean |-> r.batch_mean, batch_var |-> r.batch_var,
                          mean |-> r.mean, var |-> r.var, counter |-> r.counter,
                          normed |-> r.normed, before |-> r.before,
                          prev |-> IF bn_last.called
                                   THEN [called |-> TRUE, x |-> bn_last.x,
                                         deterministic |-> bn_last.deterministic,
                                         normed |-> bn_last.normed]
                                   ELSE NoCall]
    /\ ncalls' = ncalls + 1
    /\ ntrain' = IF deterministic THEN ntrain ELSE ntrain + 1
    /\ UNCHANGED <<cell, store, state, last, steps>>

TrainCall == \E x \in BnInputs : BatchNormCall(x, FALSE)
EvalCall == \E x \in BnInputs : BatchNormCall(x, TRUE)

NextBN == TrainCall \/ EvalCall

SpecBN == InitBN /\ [][NextBN]_vars

----------------------------------------------------------------------------
(* sigmoid and tanh, piecewise linear between the integers *)

SigmoidKnots == <<500, 731, 881, 953, 982, 993, 998>>   \* 1000 * sigmoid(0..6)

SigmoidPos(x) ==
    LET q == x \div Scale
        r == x % Scale
    IN  IF q >= 6 THEN (SigmoidKnots[7] * Scale) \div 1000
        ELSE (SigmoidKnots[q + 1] * (Scale - r) + SigmoidKnots[q + 2] * r) \div 1000

sigmoid(x) == IF x >= 0 THEN SigmoidPos(x) ELSE Scale - SigmoidPos(-x)
tanh(x) == 2 * sigmoid(2 * x) - Scale

----------------------------------------------------------------------------
(* LSTMCell.__init__ *)

None == [some |-> FALSE]
Some(v) == [some |-> TRUE, v |-> v]

\* `if num_proj:` is the truth value of num_proj: None and 0 are both false
Truthy(opt) == opt.some /\ opt.v # 0

LSTMStateTuple(c, h) == [c |-> c, h |-> h]

LSTMCell_init(num_units, use_peepholes, cell_clip, initializer, num_proj, forget_bias, bn, return_gate) ==
    [num_units |-> num_units, use_peepholes |-> use_peepholes,
     cell_clip |-> cell_clip, initializer |-> initializer,
     num_proj |-> num_proj, forget_bias |-> forget_bias,
     bn |-> bn, return_gate |-> return_gate,
     state_size |-> IF Truthy(num_proj) THEN LSTMStateTuple(num_units, num_proj.v)
                                        ELSE LSTMStateTuple(num_units, num_units),
     output_size |-> IF Truthy(num_proj) THEN num_proj.v ELSE num_units]

----------------------------------------------------------------------------
(* Tensor operations of the framework *)

\* vs.get_variable / _get_concat_variable: create on first use, look up later
GetVariable(st, name, shape, init) ==
    IF name \in DOMAIN st THEN st
    ELSE [n \in DOMAIN st \cup {name} |->
            IF n = name THEN [shape |-> shape, init |-> init] ELSE st[n]]

Matrix(v) == Mat([r \in 1..v.shape[1] |-> [k \in 1..v.shape[2] |-> v.init]])
Vector(v) == Vec([k \in 1..v.shape[1] |-> v.init])

\* math_ops.matmul(x, w), w a variable of shape [Width(x), cols]
MatMul(x, v) ==
    LET w == Matrix(v)
    IN  Mat([b \in 1..Len(x) |->
            [k \in 1..v.shape[2] |->
                SeqSum(Vec([r \in 1..v.shape[1] |-> Mul(x[b][r], w[r][k])]))]])

Concat(x, y) == Mat([b \in 1..Len(x) |-> x[b] \o y[b]])
Add(x, y) == Mat([b \in 1..Len(x) |-> [k \in 1..Len(x[b]) |-> x[b][k] + y[b][k]]])
BiasAdd(x, bias) ==
    Mat([b \in 1..Len(x) |-> [k \in 1..Len(x[b]) |-> x[b][k] + bias[k]]])
Slice(x, from, n) == Mat([b \in 1..Len(x) |-> [k \in 1..n |-> x[b][from + k]]])

\* sigmoid(x), tanh(x) and zeros of x's shape, elementwise
Sigmoids(x) == Mat([b \in 1..Len(x) |-> [k \in 1..Len(x[b]) |-> sigmoid(x[b][k])]])
Tanhs(x) == Mat([b \in 1..Len(x) |-> [k \in 1..Len(x[b]) |-> tanh(x[b][k])]])
ZerosLike(x) == Mat([b \in 1..Len(x) |-> [k \in 1..Len(x[b]) |-> 0]])
AddScalar(x, a) == Mat([b \in 1..Len(x) |-> [k \in 1..Len(x[b]) |-> x[b][k] + a]])
Hadamard(x, y) ==
    Mat([b \in 1..Len(x) |-> [k \in 1..Len(x[b]) |-> Mul(x[b][k], y[b][k])]])
\* x * w for a vector w, broadcast over the rows of x
MulVec(x, w) == Mat([b \in 1..Len(x) |-> [k \in 1..Len(x[b]) |-> Mul(x[b][k], w[k])]])

\* clip_ops.clip_by_value(t, lo, hi): maximum(minimum(t, hi), lo)
clip_by_value(x, lo, hi) ==
    Mat([b \in 1..Len(x) |-> [k \in 1..Len(x[b]) |-> Max(Min(x[b][k], hi), lo)]])

----------------------------------------------------------------------------
(* LSTMCell.__call__, stage by stage.  Each stage maps the call's frame (its  *)
(* local names, the variable store and the error raised, if any) to the      *)
(* frame after it.                                                           *)

\* scope_name + 'bn_i', 'bn_r', 'bn_m' with scope_name = "LSTMCell"
BnScopeI == "LSTMCellbn_i"
BnScopeR == "LSTMCellbn_r"
BnScopeM == "LSTMCellbn_m"

Put(loc, new) == new @@ loc
Raised(loc) == loc.error # "none"

CheckInputAfterBias(loc) ==
    LET np == IF loc.self.num_proj.some THEN loc.self.num_proj.v
                                        ELSE loc.self.num_units
        st == GetVariable(loc.store, "B", <<4 * loc.self.num_units>>, 0)
    IN  IF ~loc.input_size.some
        THEN Put(loc, [error |-> "ValueError", store |-> st])
        ELSE Put(loc, [num_proj |-> np, store |-> st])

\* num_proj = num_units if num_proj is None else num_proj; the ValueError when
\* the input's width is unknown
CheckInput(loc) ==
    LET np == IF loc.self.num_proj.some THEN loc.self.num_proj.v
                                        ELSE loc.self.num_units
    IN  IF ~loc.input_size.some
        THEN Put(loc, [error |-> "ValueError"])
        ELSE Put(loc, [num_proj |-> np])

GetWeights(loc) ==
    IF Raised(loc) THEN loc
    ELSE LET n4 == 4 * loc.self.num_units
             w0 == loc.self.initializer
             in == loc.input_size.v
         IN  IF loc.self.bn
             THEN Put(loc, [store |->
                    GetVariable(
                      GetVariable(
                        GetVariable(loc.store, "W_i", <<in, n4>>, w0),
                        "W_r", <<loc.num_proj, n4>>, w0),
                      "B", <<n4>>, 0)])
             ELSE Put(loc, [store |->
                    GetVariable(
                      GetVariable(loc.store, "W", <<in + loc.num_proj, n4>>, w0),
                      "B", <<n4>>, 0)])

LstmMatrixBn(loc) ==
    LET bi == batch_norm(MatMul(loc.inputs, loc.store["W_i"]), loc.deterministic,
                         FALSE, BnScopeI, loc.bnvars)
    IN  IF Width(loc.m_prev) # loc.store["W_r"].shape[1]
        THEN Put(loc, [error |-> "ShapeError", bnvars |-> bi.bnvars])
        ELSE LET br == batch_norm(MatMul(loc.m_prev, loc.store["W_r"]),
                                  loc.deterministic, FALSE, BnScopeR,
                                  bi.bnvars)
             IN  Put(loc, [lstm_matrix |->
                             BiasAdd(Add(bi.normed, br.normed),
                                     Vector(loc.store["B"])),
                           bnvars |-> br.bnvars])

LstmMatrixPlain(loc) ==
    LET cell_inputs == Concat(loc.inputs, loc.m_prev)
    IN  IF Width(cell_inputs) # loc.store["W"].shape[1]
        THEN Put(loc, [error |-> "ShapeError"])
        ELSE Put(loc, [lstm_matrix |->
                         BiasAdd(MatMul(cell_inputs, loc.store["W"]),
                                 Vector(loc.store["B"]))])

LstmMatrix(loc) ==
    IF Raised(loc) THEN loc
    ELSE IF loc.self.bn THEN LstmMatrixBn(loc) ELSE LstmMatrixPlain(loc)

\* i, j, f, o = array_ops.split(1, 4, lstm_matrix)
Split(loc) ==
    IF Raised(loc) THEN loc
    ELSE LET n == loc.self.num_units
         IN  Put(loc, [i |-> Slice(loc.lstm_matrix, 0, n),
                       j |-> Slice(loc.lstm_matrix, n, n),
                       f |-> Slice(loc.lstm_matrix, 2 * n, n),
                       o |-> Slice(loc.lstm_matrix, 3 * n, n)])

GetPeepholes(loc) ==
    IF Raised(loc) \/ ~loc.self.use_peepholes THEN loc
    ELSE LET n == loc.self.num_units
             w0 == loc.self.initializer
         IN  Put(loc, [store |->
                GetVariable(
                  GetVariable(
                    GetVariable(loc.store, "W_F_diag", <<n>>, w0),
                    "W_I_diag", <<n>>, w0),
                  "W_O_diag", <<n>>, w0)])

\* w_diag * c when peepholes are enabled, nothing (0) otherwise
Peephole(loc, name, c) ==
    IF loc.self.use_peepholes THEN MulVec(c, Vector(loc.store[name]))
                              ELSE ZerosLike(c)

NewCellBiasOnCandidate(loc) ==
    IF Raised(loc) THEN loc
    ELSE LET fgate == Sigmoids(Add(loc.f, Peephole(loc, "W_F_diag", loc.c_prev)))
             igate == Sigmoids(Add(loc.i, Peephole(loc, "W_I_diag", loc.c_prev)))
         IN  Put(loc, [fgate |-> fgate,
                       c |-> Add(Hadamard(fgate, loc.c_prev),
                                 Hadamard(igate,
                                    Tanhs(AddScalar(loc.j, loc.self.forget_bias))))])

\* c = sigmoid(f + forget_bias [+ w_f_diag * c_prev]) * c_prev
\*     + sigmoid(i [+ w_i_diag * c_prev]) * activation(j)
NewCell(loc) ==
    IF Raised(loc) THEN loc
    ELSE LET fgate == Sigmoids(Add(AddScalar(loc.f, loc.self.forget_bias),
                                        Peephole(loc, "W_F_diag", loc.c_prev)))
             igate == Sigmoids(Add(loc.i, Peephole(loc, "W_I_diag", loc.c_prev)))
         IN  Put(loc, [fgate |-> fgate,
                       c |-> Add(Hadamard(fgate, loc.c_prev),
                                 Hadamard(igate, Tanhs(loc.j)))])

ClipCellUpperOnly(loc) ==
    IF Raised(loc) THEN loc
    ELSE IF loc.self.cell_clip.some
         THEN Put(loc, [c |-> Mat([b \in 1..Len(loc.c) |-> [k \in 1..Len(loc.c[b]) |->
                                     Min(loc.c[b][k], loc.self.cell_clip.v)]]),
                        c_unclipped |-> loc.c])
         ELSE Put(loc, [c_unclipped |-> loc.c])

\* if cell_clip is not None: c = clip_by_value(c, -cell_clip, cell_clip).
\* c_unclipped keeps the value c had before, for the properties to refer to.
ClipCell(loc) ==
    IF Raised(loc) THEN loc
    ELSE IF loc.self.cell_clip.some
         THEN Put(loc, [c |-> clip_by_value(loc.c, -loc.self.cell_clip.v,
                                            loc.self.cell_clip.v),
                        c_unclipped |-> loc.c])
         ELSE Put(loc, [c_unclipped |-> loc.c])

\* m = sigmoid(o [+ w_o_diag * c]) * activation(c), or activation(batch_norm(c))
\* when bn is set
Output(loc) ==
    IF Raised(loc) THEN loc
    ELSE LET ogate == Sigmoids(Add(loc.o, Peephole(loc, "W_O_diag", loc.c)))
         IN  IF loc.self.bn
             THEN LET bm == batch_norm(loc.c, loc.deterministic, TRUE,
                                       BnScopeM, loc.bnvars)
                  IN  Put(loc, [ogate |-> ogate, act_in |-> bm.normed,
                                bnvars |-> bm.bnvars,
                                m |-> Hadamard(ogate, Tanhs(bm.normed))])
             ELSE Put(loc, [ogate |-> ogate, act_in |-> loc.c,
                            m |-> Hadamard(ogate, Tanhs(loc.c))])

\* if num_proj is not None: m = matmul(m, W_P)
Project(loc) ==
    IF Raised(loc) THEN loc
    ELSE IF loc.self.num_proj.some
         THEN LET st == GetVariable(loc.store, "W_P",
                                    <<loc.self.num_units, loc.self.num_proj.v>>,
                                    loc.self.initializer)
              IN  Put(loc, [store |-> st, m_act |-> loc.m,
                            m |-> MatMul(loc.m, st["W_P"])])
         ELSE Put(loc, [m_act |-> loc.m])

ReturnNormalizedCell(loc) ==
    IF Raised(loc) THEN loc
    ELSE LET new_state == LSTMStateTuple(loc.act_in, loc.m)
         IN  Put(loc, [new_state |-> new_state,
                       returned |-> IF ~loc.self.return_gate
                                    THEN <<loc.m, new_state>>
                                    ELSE <<loc.m, new_state,
                                           <<loc.i, loc.j, loc.f, loc.o>>>>])

\* new_state = LSTMStateTuple(c, m); return m, new_state[, (i, j, f, o)]
Return(loc) ==
    IF Raised(loc) THEN loc
    ELSE LET new_state == LSTMStateTuple(loc.c, loc.m)
         IN  Put(loc, [new_state |-> new_state,
                       returned |-> IF ~loc.self.return_gate
                                    THEN <<loc.m, new_state>>
                                    ELSE <<loc.m, new_state,
                                           <<loc.i, loc.j, loc.f, loc.o>>>>])

BodyClipAfterOutput(loc) ==
    Return(Project(ClipCell(Output(NewCell(GetPeepholes(Split(LstmMatrix(
        GetWeights(CheckInput(loc))))))))))

\* the body of __call__ in the order of the source
Body(loc) ==
    Return(Project(Output(ClipCell(NewCell(GetPeepholes(Split(LstmMatrix(
        GetWeights(CheckInput(loc))))))))))

LSTMCell_call(self, inputs, input_size, st, deterministic, vstore, bnv) ==
    Body([self |-> self, inputs |-> inputs, input_size |-> input_size,
          c_prev |-> st.c, m_prev |-> st.h, deterministic |-> deterministic,
          store |-> vstore, bnvars |-> bnv, error |-> "none"])

----------------------------------------------------------------------------
(* The cell and its caller *)

UnitCounts == {1, 2}
ProjCounts == {0, 1, 2}
InputSizes == {1}
ClipBound == Scale \div 4
ClipValues == {None, Some(-ClipBound), Some(0), Some(ClipBound)}
ForgetBiases == {0, Scale}
Initializers == {0, Scale}      \* constant initializers of the weights

Cells ==
    {LSTMCell_init(n, peep, clip, w0, proj, fb, bn, rg) :
        n \in UnitCounts, peep \in BOOLEAN, clip \in ClipValues,
        w0 \in Initializers, proj \in {None} \cup {Some(p) : p \in ProjCounts},
        fb \in ForgetBiases, bn \in BOOLEAN, rg \in BOOLEAN}

Zeros(batch, width) == Mat([b \in 1..batch |-> [k \in 1..width |-> 0]])

\* the caller starts from zero_state: widths from state_size; a caller that
\* knows the width the step uses for h may start from that one instead
InitialStates(self, batch) ==
    {[c |-> Zeros(batch, self.state_size.c), h |-> Zeros(batch, hw), returned |-> FALSE] :
        hw \in {self.state_size.h,
                IF self.num_proj.some THEN self.num_proj.v ELSE self.num_units}}

\* input batches: every feature of row b holds v[b]
InputRows == {<<0, 0>>, <<Scale, -Scale>>}
Inputs(batch, width) ==
    {Mat([b \in 1..batch |-> [k \in 1..width |-> v[((b - 1) % 2) + 1]]]) : v \in InputRows}

NoInputs == << >>

Init ==
    /\ bnvars = << >>
    /\ bn_last = [called |-> FALSE, prev |-> NoCall]
    /\ ncalls = 0
    /\ ntrain = 0
    /\ cell \in Cells
    /\ store = << >>
    /\ \E batch \in BatchSizes : state \in InitialStates(cell, batch)
    /\ last = [error |-> "not called"]
    /\ steps = 0

\* One call of the cell by the caller, who keeps the returned state for the
\* next call and keeps the old one when the call raised.
Call(inputs, input_size, deterministic) ==
    /\ steps < MaxSteps
    /\ \E r \in {LSTMCell_call(cell, inputs, input_size, state, deterministic,
                               store, bnvars)} :
           /\ store' = r.store
           /\ bnvars' = r.bnvars
           /\ last' = Put(r, [store_before |-> store, bnvars_before |-> bnvars,
                              state_before |-> state])
           /\ state' = IF r.error = "none"
                       THEN [c |-> r.new_state.c, h |-> r.new_state.h,
                             returned |-> TRUE]
                       ELSE state
    /\ steps' = steps + 1
    /\ UNCHANGED <<cell, bn_last, ncalls, ntrain>>

Deterministics == IF cell.bn THEN BOOLEAN ELSE {FALSE}

Step ==
    \E size \in InputSizes, det \in Deterministics :
        \E inputs \in Inputs(Len(state.c), size) :
            Call(inputs, Some(size), det)

\* a call with an input whose last dimension is unknown; no value of the
\* deterministic tensor is involved
StepUnknownInput == Call(NoInputs, None, FALSE)

Next == Step \/ StepUnknownInput

Spec == Init /\ [][Next]_vars

----------------------------------------------------------------------------
(* Properties of batch_norm, checked under SpecBN *)

Stored == bnvars[BnScope]

\* C1: every training-mode call stores the blended statistics and raises the
\* stored counter by one, so the stored counter equals the number of
\* training-mode calls made on the scope.
C1_TrainingCallsUpdateStored ==
    bn_last.called =>
        /\ Stored.counter = ntrain
        /\ ~bn_last.deterministic =>
              LET prior == Seed(bn_last.before, bn_last.batch_mean, bn_last.batch_var)
              IN  /\ Stored.mean = BlendVec(bn_last.batch_mean, prior.mean)
                  /\ Stored.var = BlendVec(bn_last.batch_var, prior.var)
                  /\ Stored.counter = bn_last.before.counter + 1

\* C2: an evaluation-mode call that follows a training-mode call normalizes
\* with the stored running mean and variance, not with the batch's.
C2_EvalUsesStoredStatistics ==
    (bn_last.called /\ bn_last.deterministic /\ ntrain >= 1) =>
        /\ bn_last.mean = bn_last.before.mean
        /\ bn_last.var = bn_last.before.var

C7_EvalLeavesStoredAndRepeats ==
    (bn_last.called /\ bn_last.deterministic) =>
        /\ Stored.mean = bn_last.before.mean
        /\ Stored.var = bn_last.before.var
        /\ Stored.counter = bn_last.before.counter
        /\ (bn_last.prev.called /\ bn_last.prev.deterministic
              /\ bn_last.prev.x = bn_last.x) => bn_last.prev.normed = bn_last.normed

C7_Witness ==
    /\ bn_last.called
    /\ bn_last.deterministic
    /\ bn_last.prev.called
    /\ bn_last.prev.deterministic
    /\ bn_last.prev.x = bn_last.x
    /\ bn_last.batch_mean # bn_last.before.mean
    /\ \E b \in 1..Len(bn_last.normed) : bn_last.normed[b][1] # 0

----------------------------------------------------------------------------
(* Properties of LSTMCell, checked under Spec *)

Returned == last.error = "none"
IsZero(x) == \A b \in 1..Len(x) : \A k \in 1..Len(x[b]) : x[b][k] = 0
AllWithin(x, lo, hi) ==
    \A b \in 1..Len(x) : \A k \in 1..Len(x[b]) : lo <= x[b][k] /\ x[b][k] <= hi
Clipped(self, c) ==
    IF self.cell_clip.some THEN clip_by_value(c, -self.cell_clip.v, self.cell_clip.v)
                           ELSE c

\* C4: in every configuration the widths a step returns are the declared
\* output_size and state_size, these are num_proj and (num_units, num_proj)
\* when num_proj is set, and the weights built for the recurrent input have
\* as many rows as the declared h is wide.
C4_WidthsMatchDeclaredSizes ==
    /\ Returned =>
          /\ Width(last.returned[1]) = cell.output_size
          /\ Width(last.new_state.c) = cell.state_size.c
          /\ Width(last.new_state.h) = cell.state_size.h
          /\ cell.num_proj.some =>
                /\ Width(last.returned[1]) = cell.num_proj.v
                /\ cell.state_size = LSTMStateTuple(cell.num_units, cell.num_proj.v)
    /\ "W" \in DOMAIN store =>
          \E size \in InputSizes : store["W"].shape[1] = size + cell.state_size.h
    /\ "W_r" \in DOMAIN store => store["W_r"].shape[1] = cell.state_size.h

\* C5 as stated: for any configured cell_clip = K, negative ones included, the
\* returned and the carried cell state lie within [-K, K].
C5_ClippedForAnyBound ==
    cell.cell_clip.some =>
        /\ Returned => AllWithin(last.new_state.c, -cell.cell_clip.v, cell.cell_clip.v)
        /\ state.returned => AllWithin(state.c, -cell.cell_clip.v, cell.cell_clip.v)

\* C5, amended: for any configured cell_clip = K >= 0 every element of the new
\* cell state a step returns lies within [-K, K], and so does the cell state
\* carried through any sequence of steps.
C5_ClippedForNonNegativeBound ==
    (cell.cell_clip.some /\ cell.cell_clip.v >= 0) =>
        /\ Returned => AllWithin(last.new_state.c, -cell.cell_clip.v, cell.cell_clip.v)
        /\ state.returned => AllWithin(state.c, -cell.cell_clip.v, cell.cell_clip.v)

C5_Witness ==
    /\ steps = 2
    /\ Returned
    /\ last.state_before.returned
    /\ cell.cell_clip.some
    /\ cell.cell_clip.v >= 0
    /\ \E b \in 1..Len(last.c) : \E k \in 1..Len(last.c[b]) :
           last.c_unclipped[b][k] < -cell.cell_clip.v
    /\ \E b \in 1..Len(last.c) : \E k \in 1..Len(last.c[b]) :
           last.c_unclipped[b][k] > cell.cell_clip.v

\* C6: a call with an input of unknown width raises the ValueError before
\* anything else happens: no weight variable and no batch_norm variable is
\* created or changed, and nothing is returned.
C6_UnknownInputRaisesFirst ==
    last.error = "ValueError" =>
        /\ store = last.store_before
        /\ bnvars = last.bnvars_before
        /\ state = last.state_before
        /\ DOMAIN last \cap {"lstm_matrix", "c", "m", "new_state", "returned"} = {}

C6_Witness ==
    /\ last.error = "ValueError"
    /\ store = << >>
    /\ bnvars = << >>
    /\ cell.bn
    /\ cell.use_peepholes
    /\ cell.num_proj.some

\* C8 as stated: without peepholes and batch normalization, a zero input, a
\* zero previous state and zero weights give zero pre-activations, a forget
\* gate of sigmoid(forget_bias), a zero new cell state and a zero output,
\* whatever cell_clip is.
ZeroStep ==
    /\ Returned
    /\ ~cell.use_peepholes
    /\ ~cell.bn
    /\ cell.initializer = 0
    /\ IsZero(last.inputs)
    /\ IsZero(last.c_prev)
    /\ IsZero(last.m_prev)

ZeroStepResult ==
    /\ IsZero(last.i)
    /\ IsZero(last.j)
    /\ IsZero(last.f)
    /\ IsZero(last.o)
    /\ \A b \in 1..Len(last.fgate) : \A k \in 1..Len(last.fgate[b]) :
           last.fgate[b][k] = sigmoid(cell.forget_bias)
    /\ IsZero(last.new_state.c)
    /\ IsZero(last.returned[1])
    /\ IsZero(last.new_state.h)

C8_ZeroStepAnyClip == ZeroStep => ZeroStepResult

\* C8, amended: the same, with cell_clip absent or not negative.
C8_ZeroStepNonNegativeClip ==
    (ZeroStep /\ (cell.cell_clip.some => cell.cell_clip.v >= 0)) => ZeroStepResult

C8_Witness ==
    /\ ZeroStep
    /\ cell.forget_bias # 0
    /\ cell.cell_clip.some
    /\ cell.cell_clip.v > 0
    /\ cell.num_proj.some
    /\ cell.num_proj.v > 0
    /\ steps = 2

\* C9: with peepholes, the forget and input gates see the previous cell state,
\* the new cell state is clamped next, and the output gate and the output
\* activation see the clamped new cell state only.
C9_PeepholeStagesInOrder ==
    (Returned /\ cell.use_peepholes) =>
        /\ last.fgate = Sigmoids(
                Add(AddScalar(last.f, cell.forget_bias),
                    MulVec(last.c_prev, Vector(store["W_F_diag"]))))
        /\ last.c_unclipped =
                Add(Hadamard(last.fgate, last.c_prev),
                    Hadamard(Sigmoids(
                                Add(last.i, MulVec(last.c_prev,
                                                   Vector(store["W_I_diag"])))),
                             Tanhs(last.j)))
        /\ last.new_state.c = Clipped(cell, last.c_unclipped)
        /\ last.ogate = Sigmoids(
                Add(last.o, MulVec(last.new_state.c, Vector(store["W_O_diag"]))))
        /\ last.act_in =
                IF cell.bn
                THEN batch_norm(last.new_state.c, last.deterministic, TRUE,
                                BnScopeM, bnvars).normed
                ELSE last.new_state.c
        /\ last.m_act = Hadamard(last.ogate, Tanhs(last.act_in))

C9_Witness ==
    /\ Returned
    /\ cell.use_peepholes
    /\ cell.bn
    /\ cell.cell_clip.some
    /\ last.c_unclipped # last.new_state.c
    /\ last.ogate # Sigmoids(
            Add(last.o, MulVec(last.c_unclipped, Vector(store["W_O_diag"]))))

\* C10: the state a step returns is (c, m): c the clamped cell state, not the
\* batch-normalized one, and m the very tensor returned as the output, after
\* the projection when there is one; with return_gate the gates come third.
C10_NewStateIsCellAndOutput ==
    Returned =>
        /\ last.new_state.c = Clipped(cell, last.c_unclipped)
        /\ last.returned[1] =
              IF cell.num_proj.some THEN MatMul(last.m_act, store["W_P"])
                                    ELSE last.m_act
        /\ last.new_state.h = last.returned[1]
        /\ last.returned[2] = last.new_state
        /\ Len(last.returned) = IF cell.return_gate THEN 3 ELSE 2
        /\ cell.return_gate => last.returned[3] = <<last.i, last.j, last.f, last.o>>
        /\ state = [c |-> last.new_state.c, h |-> last.new_state.h, returned |-> TRUE]

C10_Witness ==
    /\ Returned
    /\ cell.bn
    /\ cell.return_gate
    /\ cell.num_proj.some
    /\ cell.num_proj.v > 0
    /\ last.act_in # last.new_state.c
    /\ ~IsZero(last.returned[1])
    /\ last.m_act # last.returned[1]

====
